---- MODULE Spec2Model ----
(***************************************************************************)
(* A model of 13_human_pathogen_curation.py: the name normalizer, the rank *)
(* extractor, the taxonomy table reader and the reference list readers.    *)
(*                                                                         *)
(* A Python str is a sequence of one-character strings; None is the model  *)
(* value None.  A pandas DataFrame is a record [columns, rows]: the column *)
(* labels in order, and the rows, each a tuple of cells aligned with the   *)
(* labels.  A raised exception is a record in the variable raised.         *)
(***************************************************************************)
EXTENDS Integers, Sequences, FiniteSets, TLC

VARIABLES
    pc,                 \* position of the running call
    name,               \* normalize_taxon_name: argument name
    strip_uncultured,   \* normalize_taxon_name: argument strip_uncultured
    normalized,         \* normalize_taxon_name: return value
    taxon,              \* extract_rank_from_taxon_string: argument taxon
    rank_letter,        \* extract_rank_from_taxon_string: argument rank_letter
    extracted,          \* extract_rank_from_taxon_string: return value
    path,               \* read_taxonomy_table / _read_ref_one: argument path
    df,                 \* read_taxonomy_table / _read_ref_one: returned frame
    paths,              \* read_reference_lists: argument paths
    refs,               \* read_reference_lists: local list refs
    idx,                \* read_reference_lists: position of the for loop
    opened,             \* the files pd.read_csv has been called on, in order
    ref,                \* read_reference_lists: the concatenated table
    raised              \* the exception that ended the call, or None

vars == <<pc, name, strip_uncultured, normalized, taxon, rank_letter, extracted,
          path, df, paths, refs, idx, opened, ref, raised>>

\* Python's None where a str is expected (no str is this sequence: the elements
\* of a str are single characters)
None == <<"None">>

\* no DataFrame (yet), no exception
NoFrame == [type |-> "None"]
NoException == [type |-> "None"]

(***************************************************************************)
(* Bounds of the checked input spaces.                                     *)
(***************************************************************************)
MaxNameTokens == 4
MaxTaxonTokens == 4
MaxRows == 2
MaxFiles == 3

(***************************************************************************)
(* Characters and the str methods the program uses.                        *)
(***************************************************************************)
LowerLetters ==
    <<"a","b","c","d","e","f","g","h","i","j","k","l","m",
      "n","o","p","q","r","s","t","u","v","w","x","y","z">>

UpperLetters ==
    <<"A","B","C","D","E","F","G","H","I","J","K","L","M",
      "N","O","P","Q","R","S","T","U","V","W","X","Y","Z">>

Digits == {"0","1","2","3","4","5","6","7","8","9"}

IsUpper(c) == \E i \in 1..26 : UpperLetters[i] = c

IsLetter(c) == \E i \in 1..26 : UpperLetters[i] = c \/ LowerLetters[i] = c

\* str.isspace / the regex class \s
IsSpace(c) == c \in {" ", "\t", "\n", "\r", "\f"}

\* the regex class \w
IsWord(c) == IsLetter(c) \/ c \in Digits \/ c = "_"

LowerChar(c) ==
    IF IsUpper(c) THEN LowerLetters[CHOOSE i \in 1..26 : UpperLetters[i] = c] ELSE c

\* str.lower()
Lower(s) == [i \in 1..Len(s) |-> LowerChar(s[i])]

\* str.strip()
RECURSIVE LStrip(_)
LStrip(s) == IF s # <<>> /\ IsSpace(Head(s)) THEN LStrip(Tail(s)) ELSE s

RECURSIVE RStrip(_)
RStrip(s) ==
    IF s # <<>> /\ IsSpace(s[Len(s)]) THEN RStrip(SubSeq(s, 1, Len(s) - 1)) ELSE s

Strip(s) == RStrip(LStrip(s))

\* the literal lit found in s at position i (re.match of a literal / str.startswith)
LitAt(s, i, lit) ==
    /\ i >= 1
    /\ i + Len(lit) - 1 <= Len(s)
    /\ \A k \in 1..Len(lit) : s[i + k - 1] = lit[k]

\* the same under re.I, lit being lowercase
LitAtI(s, i, lit) ==
    /\ i >= 1
    /\ i + Len(lit) - 1 <= Len(s)
    /\ \A k \in 1..Len(lit) : LowerChar(s[i + k - 1]) = lit[k]

StartsWith(s, lit) == LitAt(s, 1, lit)

\* the number of whitespace characters of s from position i on (greedy \s*)
RECURSIVE SpaceRun(_, _)
SpaceRun(s, i) == IF i <= Len(s) /\ IsSpace(s[i]) THEN 1 + SpaceRun(s, i + 1) ELSE 0

\* the regex assertion \b before position i
IsWordAt(s, i) == i >= 1 /\ i <= Len(s) /\ IsWord(s[i])

WordBoundary(s, i) == IsWordAt(s, i - 1) # IsWordAt(s, i)

(***************************************************************************)
(* Normalization helpers.                                                  *)
(***************************************************************************)
RankLetters == {"d","k","p","c","o","f","g","s"}

\* RANK_PREFIX_RE = (^|\s)([dkpcofgs]__): the length matched at position i, or 0
RANK_PREFIX_RE(s, i) ==
    IF i = 1 /\ i + 2 <= Len(s) /\ s[i] \in RankLetters
             /\ s[i + 1] = "_" /\ s[i + 2] = "_"
    THEN 3
    ELSE IF i + 3 <= Len(s) /\ IsSpace(s[i]) /\ s[i + 1] \in RankLetters
                            /\ s[i + 2] = "_" /\ s[i + 3] = "_"
    THEN 4
    ELSE 0

\* RANK_PREFIX_RE.sub(" ", s), from position i on
RECURSIVE SubRankPrefix(_, _)
SubRankPrefix(s, i) ==
    IF i > Len(s) THEN <<>>
    ELSE LET m == RANK_PREFIX_RE(s, i)
         IN IF m > 0 THEN <<" ">> \o SubRankPrefix(s, i + m)
                     ELSE <<s[i]>> \o SubRankPrefix(s, i + 1)

\* SQUARE_BRACKETS_RE.sub("", s)
SubSquareBrackets(s) == SelectSeq(s, LAMBDA c : c \notin {"[", "]"})

\* re.sub(r"\s+", " ", s), from position i on
RECURSIVE SubSpaces(_, _)
SubSpaces(s, i) ==
    IF i > Len(s) THEN <<>>
    ELSE LET m == SpaceRun(s, i)
         IN IF m > 0 THEN <<" ">> \o SubSpaces(s, i + m)
                     ELSE <<s[i]>> \o SubSpaces(s, i + 1)

W_uncultured == <<"u","n","c","u","l","t","u","r","e","d">>
W_metagenome == <<"m","e","t","a","g","e","n","o","m","e">>
W_sp_dot == <<"s","p",".">>
W_incertae == <<"i","n","c","e","r","t","a","e">>
W_sedis == <<"s","e","d","i","s">>

\* \bincertae\s+sedis\b at position i: the length matched, or 0
IncertaeSedisAt(s, i) ==
    LET w == SpaceRun(s, i + 8)
    IN IF /\ WordBoundary(s, i)
          /\ LitAtI(s, i, W_incertae)
          /\ w > 0
          /\ LitAtI(s, i + 8 + w, W_sedis)
          /\ WordBoundary(s, i + 8 + w + 5)
       THEN 8 + w + 5
       ELSE 0

\* UNCULTURED_RE, re.I: the length matched at position i (the first alternative
\* that matches), or 0
UNCULTURED_RE(s, i) ==
    IF WordBoundary(s, i) /\ LitAtI(s, i, W_uncultured) /\ WordBoundary(s, i + 10)
    THEN 10
    ELSE IF WordBoundary(s, i) /\ LitAtI(s, i, W_metagenome) /\ WordBoundary(s, i + 10)
    THEN 10
    ELSE IF WordBoundary(s, i) /\ LitAtI(s, i, W_sp_dot) /\ WordBoundary(s, i + 3)
    THEN 3
    ELSE IncertaeSedisAt(s, i)

\* UNCULTURED_RE.sub("", s), from position i on
RECURSIVE SubUncultured(_, _)
SubUncultured(s, i) ==
    IF i > Len(s) THEN <<>>
    ELSE LET m == UNCULTURED_RE(s, i)
         IN IF m > 0 THEN SubUncultured(s, i + m)
                     ELSE <<s[i]>> \o SubUncultured(s, i + 1)

normalize_taxon_name(n0, strip) ==
    IF n0 = None THEN <<>>
    ELSE LET n1 == Strip(n0)
             n2 == SubSquareBrackets(n1)
             n3 == SubRankPrefix(n2, 1)
             n4 == Strip(SubSpaces(n3, 1))
         IN IF strip THEN Strip(SubSpaces(SubUncultured(n4, 1), 1)) ELSE n4

(***************************************************************************)
(* extract_rank_from_taxon_string                                          *)
(***************************************************************************)
\* re.split(r";\s*", s): cur is the piece being read, i the position
RECURSIVE ReSplitSemicolon(_, _, _)
ReSplitSemicolon(s, i, cur) ==
    IF i > Len(s) THEN <<cur>>
    ELSE IF s[i] = ";"
         THEN <<cur>> \o ReSplitSemicolon(s, i + 1 + SpaceRun(s, i + 1), <<>>)
         ELSE ReSplitSemicolon(s, i + 1, Append(cur, s[i]))

\* p.split("__", 1)[1]: what follows the first "__" of p (p holds one)
RECURSIVE AfterFirstDunder(_)
AfterFirstDunder(p) ==
    IF Len(p) < 2 THEN <<>>
    ELSE IF p[1] = "_" /\ p[2] = "_" THEN SubSeq(p, 3, Len(p))
    ELSE AfterFirstDunder(Tail(p))

\* the scan turned around (for p in parts): the first piece at the rank wins
ScanPartsForward(parts, k, letter) ==
    IF \E j \in 1..k : StartsWith(Lower(parts[j]), Lower(<<letter, "_", "_">>))
    THEN LET first == CHOOSE j \in 1..k :
                        /\ StartsWith(Lower(parts[j]), Lower(<<letter, "_", "_">>))
                        /\ \A h \in 1..(j - 1) :
                              ~StartsWith(Lower(parts[h]), Lower(<<letter, "_", "_">>))
         IN Strip(AfterFirstDunder(parts[first]))
    ELSE None

\* for p in parts[::-1]: the scan from piece k down to the first piece
RECURSIVE ScanPartsReversed(_, _, _)
ScanPartsReversed(parts, k, letter) ==
    IF k = 0 THEN None
    ELSE IF StartsWith(Lower(parts[k]), Lower(<<letter, "_", "_">>))
         THEN Strip(AfterFirstDunder(parts[k]))
         ELSE ScanPartsReversed(parts, k - 1, letter)

extract_rank_from_taxon_string(t, letter) ==
    IF t = None \/ t = <<>> THEN None
    ELSE LET split == ReSplitSemicolon(t, 1, <<>>)
             parts == [k \in 1..Len(split) |-> Strip(split[k])]
         IN ScanPartsReversed(parts, Len(parts), letter)

\* extract_rank_from_taxon_string(t, letter) or ""
ExtractOrEmpty(t, letter) ==
    LET v == extract_rank_from_taxon_string(t, letter)
    IN IF v = None THEN <<>> ELSE v

(***************************************************************************)
(* DataFrames: the pandas operations the readers use.                      *)
(***************************************************************************)
\* the position of the column labelled label, or 0 (df[label] is a KeyError)
ColumnIndex(frame, label) ==
    IF \E j \in 1..Len(frame.columns) : frame.columns[j] = label
    THEN CHOOSE j \in 1..Len(frame.columns) :
            /\ frame.columns[j] = label
            /\ \A h \in 1..(j - 1) : frame.columns[h] # label
    ELSE 0

HasColumn(frame, label) == ColumnIndex(frame, label) > 0

\* df[label]
GetColumn(frame, label) ==
    [r \in 1..Len(frame.rows) |-> frame.rows[r][ColumnIndex(frame, label)]]

\* df[label] = values
SetColumn(frame, label, values) ==
    IF HasColumn(frame, label)
    THEN [frame EXCEPT !.rows =
            [r \in 1..Len(frame.rows) |->
                [frame.rows[r] EXCEPT ![ColumnIndex(frame, label)] = values[r]]]]
    ELSE [columns |-> Append(frame.columns, label),
          rows |-> [r \in 1..Len(frame.rows) |-> Append(frame.rows[r], values[r])]]

\* df.rename(columns={old: new})
RenameColumn(frame, old, new) ==
    [frame EXCEPT !.columns =
        [j \in 1..Len(frame.columns) |->
            IF frame.columns[j] = old THEN new ELSE frame.columns[j]]]

\* series.map(normalize_taxon_name)
NormalizeCells(cells) ==
    [r \in 1..Len(cells) |-> normalize_taxon_name(cells[r], TRUE)]

\* series.apply(lambda t: extract_rank_from_taxon_string(t, letter) or "")
ExtractCells(cells, letter) == [r \in 1..Len(cells) |-> ExtractOrEmpty(cells[r], letter)]

\* series.str.lower().str.strip()
LowerStripCells(cells) == [r \in 1..Len(cells) |-> Strip(Lower(cells[r]))]

\* a dict {key(c): c for c in df.columns}: the entry of k is the last column of
\* that key; 0 when k is not in the dict
DictEntry(keys, k) ==
    IF \E j \in 1..Len(keys) : keys[j] = k
    THEN CHOOSE j \in 1..Len(keys) :
            keys[j] = k /\ \A h \in (j + 1)..Len(keys) : keys[h] # k
    ELSE 0

(***************************************************************************)
(* read_taxonomy_table                                                     *)
(***************************************************************************)
\* pd.read_csv(path, sep=..., dtype=str, keep_default_na=False): the header row
\* and the cells of the file, every cell a str
ReadCsv(p) == [columns |-> p.columns, rows |-> p.rows]

L_FeatureID == <<"F","e","a","t","u","r","e","I","D">>
L_Taxon == <<"T","a","x","o","n">>
L_Confidence == <<"C","o","n","f","i","d","e","n","c","e">>
L_Species == <<"S","p","e","c","i","e","s">>
L_Species_norm == <<"S","p","e","c","i","e","s","_","n","o","r","m">>
L_Genus == <<"G","e","n","u","s">>
L_Genus_norm == <<"G","e","n","u","s","_","n","o","r","m">>

\* the keys the readers look columns up by
K_confidence == <<"c","o","n","f","i","d","e","n","c","e">>
K_feature_id == <<"f","e","a","t","u","r","e"," ","i","d">>
K_featureid == <<"f","e","a","t","u","r","e","i","d">>
K_taxon == <<"t","a","x","o","n">>
K_species == <<"s","p","e","c","i","e","s">>

\* cols = {c.lower().strip(): c for c in df.columns}: the keys, column by column
TaxonomyKeys(frame) ==
    [j \in 1..Len(frame.columns) |-> Strip(Lower(frame.columns[j]))]

\* next((cols[k] for k in cols if k.startswith("confidence")), None): the
\* position of that column, or 0
ConfidenceColumn(keys) ==
    IF \E j \in 1..Len(keys) : StartsWith(keys[j], K_confidence)
    THEN LET first == CHOOSE j \in 1..Len(keys) :
                        /\ StartsWith(keys[j], <<"c","o","n","f","i","d","e","n","c","e">>)
                        /\ \A h \in 1..(j - 1) :
                              ~StartsWith(keys[h], K_confidence)
         IN DictEntry(keys, keys[first])
    ELSE 0

\* ValueError(f"Unrecognized taxonomy columns in {path}. Expect `Feature ID`/`Taxon`
\* or `FeatureID`/`Taxon`.")
UnrecognizedTaxonomyColumns(p) ==
    [type |-> "ValueError", what |-> "Unrecognized taxonomy columns",
     file |-> p.filename, expect |-> <<"Feature ID/Taxon", "FeatureID/Taxon">>]

\* the KeyError of df[label] on a frame without that column
KeyError(label) == [type |-> "KeyError", key |-> label]

Returned(frame) == [exception |-> NoException, frame |-> frame]

Raised(e) == [exception |-> e, frame |-> NoFrame]

\* lines 86-90: the `Feature ID` branch
StandardizeFeatureIdBranch(df0, keys) ==
    LET fid == df0.columns[DictEntry(keys, K_feature_id)]
        tax == df0.columns[DictEntry(keys, K_taxon)]
        df1 == [df0 EXCEPT !.columns =
                  [j \in 1..Len(df0.columns) |->
                      IF df0.columns[j] = fid THEN L_FeatureID
                      ELSE IF df0.columns[j] = tax THEN L_Taxon
                      ELSE df0.columns[j]]]
        conf == ConfidenceColumn(keys)
        df2 == IF conf > 0 /\ df0.columns[conf] # <<>>
               THEN RenameColumn(df1, df0.columns[conf], L_Confidence)
               ELSE df1
    IN SetColumn(df2, L_Species, ExtractCells(GetColumn(df2, L_Taxon), "s"))

\* lines 97-101: the convenience columns
NormalizeConvenienceColumns(df3) ==
    IF ~HasColumn(df3, L_Species) THEN Raised(KeyError(L_Species))
    ELSE LET df4 == SetColumn(df3, L_Species_norm,
                              NormalizeCells(GetColumn(df3, L_Species)))
         IN IF ~HasColumn(df4, L_Taxon) THEN Raised(KeyError(L_Taxon))
            ELSE LET df5 == SetColumn(df4, L_Genus,
                                      ExtractCells(GetColumn(df4, L_Taxon), "g"))
                 IN Returned(SetColumn(df5, L_Genus_norm,
                                       NormalizeCells(GetColumn(df5, L_Genus))))

read_taxonomy_table(p) ==
    LET df0 == ReadCsv(p)
        keys == TaxonomyKeys(df0)
    IN IF DictEntry(keys, K_feature_id) > 0 /\ DictEntry(keys, K_taxon) > 0
       THEN NormalizeConvenienceColumns(StandardizeFeatureIdBranch(df0, keys))
       ELSE IF DictEntry(keys, K_featureid) > 0 /\ DictEntry(keys, K_taxon) > 0
       THEN NormalizeConvenienceColumns(df0)
       ELSE Raised(UnrecognizedTaxonomyColumns(p))

(***************************************************************************)
(* _read_ref_one and read_reference_lists                                  *)
(***************************************************************************)
L_taxon == <<"t","a","x","o","n">>
L_rank == <<"r","a","n","k">>
L_taxon_norm == <<"t","a","x","o","n","_","n","o","r","m">>
R_species == <<"s","p","e","c","i","e","s">>
R_genus == <<"g","e","n","u","s">>

\* lower = {c.lower(): c for c in df.columns}: the keys, column by column
ReferenceKeys(frame) == [j \in 1..Len(frame.columns) |-> Lower(frame.columns[j])]

\* ValueError(f"{path} must contain a 'taxon' column.")
MustContainTaxonColumn(p) ==
    [type |-> "ValueError", what |-> "must contain a 'taxon' column", file |-> p.filename]

\* the heuristic without the strip: "species" if " " in str(x) else "genus"
InferRankUnstripped(x) ==
    IF \E i \in 1..Len(x) : x[i] = " " THEN R_species ELSE R_genus

\* lambda x: "species" if " " in str(x).strip() else "genus"
InferRank(x) ==
    LET s == Strip(x)
    IN IF \E i \in 1..Len(s) : s[i] = " " THEN R_species ELSE R_genus

\* .str.lower().str.strip().replace({"sp": "species"}), cell by cell
ExplicitRank(x) ==
    LET s == Strip(Lower(x))
    IN IF s = <<"s","p">> THEN R_species ELSE s

OptionalColumns ==
    <<<<"r","i","s","k","_","l","e","v","e","l">>, <<"r","i","s","k">>,
        <<"s","o","u","r","c","e">>,
            <<"e","v","i","d","e","n","c","e","_","s","o","u","r","c","e">>,
                <<"r","e","f","e","r","e","n","c","e">>, <<"n","o","t","e","s">>>>

\* for k in (...): if k in lower: df = df.rename(columns={lower[k]: k}), from the
\* i-th name on; labels are the columns of the file as read
RECURSIVE RenameOptionalColumns(_, _, _, _)
RenameOptionalColumns(frame, labels, keys, i) ==
    IF i > Len(OptionalColumns) THEN frame
    ELSE LET k == OptionalColumns[i]
         IN RenameOptionalColumns(
                IF DictEntry(keys, k) > 0
                THEN RenameColumn(frame, labels[DictEntry(keys, k)], k)
                ELSE frame,
                labels, keys, i + 1)

\* lines 119-124: the rank column, inferred or read
ResolveRank(df1, labels, keys) ==
    IF DictEntry(keys, L_rank) = 0
    THEN SetColumn(df1, L_rank,
                   [r \in 1..Len(df1.rows) |-> InferRank(GetColumn(df1, L_taxon)[r])])
    ELSE LET df2 == RenameColumn(df1, labels[DictEntry(keys, L_rank)], L_rank)
         IN SetColumn(df2, L_rank,
                      [r \in 1..Len(df2.rows) |-> ExplicitRank(GetColumn(df2, L_rank)[r])])

read_ref_one(p) ==
    LET df0 == ReadCsv(p)
        keys == ReferenceKeys(df0)
    IN IF DictEntry(keys, L_taxon) = 0 THEN Raised(MustContainTaxonColumn(p))
       ELSE LET df1 == RenameColumn(df0, df0.columns[DictEntry(keys, L_taxon)], L_taxon)
                df3 == ResolveRank(df1, df0.columns, keys)
                df4 == RenameOptionalColumns(df3, df0.columns, keys, 1)
                df5 == SetColumn(df4, L_taxon_norm, NormalizeCells(GetColumn(df4, L_taxon)))
            IN Returned(SetColumn(df5, L_rank, LowerStripCells(GetColumn(df5, L_rank))))

\* ValueError("At least one curated reference list is required.")
AtLeastOneReferenceList ==
    [type |-> "ValueError", what |-> "At least one curated reference list is required"]

\* a cell pd.concat fills in for a column a frame does not have
NaN == <<"NaN">>

\* the column labels of the frames, in the order of their first appearance
RECURSIVE UnionColumns(_, _)
UnionColumns(frames, acc) ==
    IF frames = <<>> THEN acc
    ELSE UnionColumns(Tail(frames),
            acc \o SelectSeq(Head(frames).columns,
                             LAMBDA c : \A j \in 1..Len(acc) : acc[j] # c))

\* the rows of frame under the column labels cols
Reindexed(frame, cols) ==
    [r \in 1..Len(frame.rows) |->
        [j \in 1..Len(cols) |->
            IF HasColumn(frame, cols[j])
            THEN frame.rows[r][ColumnIndex(frame, cols[j])]
            ELSE NaN]]

RECURSIVE ConcatRows(_, _)
ConcatRows(frames, cols) ==
    IF frames = <<>> THEN <<>>
    ELSE Reindexed(Head(frames), cols) \o ConcatRows(Tail(frames), cols)

\* pd.concat(refs, ignore_index=True): every row of every frame, frame by frame
Concat(frames) ==
    LET cols == UnionColumns(frames, <<>>)
    IN [columns |-> cols, rows |-> ConcatRows(frames, cols)]

(***************************************************************************)
(* The inputs the calls are checked on.                                    *)
(***************************************************************************)
\* every concatenation of at most n of the pieces
RECURSIVE Concatenations(_, _)
Concatenations(pieces, n) ==
    IF n = 0 THEN {<<>>}
    ELSE LET shorter == Concatenations(pieces, n - 1)
         IN shorter \cup {s \o t : s \in shorter, t \in pieces}

\* "g__", "sp.", "Uncultured", "metagenome", "incertae", "sedis", " ", "B", "["
NamePieces ==
    {<<"g","_","_">>, <<"s","p",".">>, <<"U","n","c","u","l","t","u","r","e","d">>,
        <<"m","e","t","a","g","e","n","o","m","e">>, <<"i","n","c","e","r","t","a","e">>,
            <<"s","e","d","i","s">>,
     <<" ">>, <<"B">>, <<"[">>}

Names == Concatenations(NamePieces, MaxNameTokens) \cup {None}

\* "g__", "G__b", "s__", ";", " ", "A", "b", "_"
TaxonPieces ==
    {<<"g","_","_">>, <<"G","_","_","b">>, <<"s","_","_">>, <<";">>, <<" ">>,
     <<"A">>, <<"b">>, <<"_">>}

Taxons == Concatenations(TaxonPieces, MaxTaxonTokens) \cup {None}

\* the rank letters the program asks for (lines 90 and 99)
AskedRankLetters == {"s", "g"}

NoFile == [filename |-> "", columns |-> <<>>, rows |-> <<>>]

\* the tuples of cells whose j-th cell is one of pools[j]
RECURSIVE RowsOf(_)
RowsOf(pools) ==
    IF pools = <<>> THEN {<<>>}
    ELSE {<<c>> \o r : c \in Head(pools), r \in RowsOf(Tail(pools))}

\* the tables of at most MaxRows rows, the cells of the j-th column among pools[j]
TablesOf(pools) == UNION {[1..n -> RowsOf(pools)] : n \in 0..MaxRows}

\* "g__Ba; s__Ba sp.", "g__Ab;g__[Ba] ;x", ""
TaxonCells == {<<"g","_","_","B","a",";"," ","s","_","_","B","a"," ","s","p",".">>,
    <<"g","_","_","A","b",";","g","_","_","[","B","a","]"," ",";","x">>, <<>>}

\* "s__Ba su", "Uncultured Ba", ""
SpeciesCells == {<<"s","_","_","B","a"," ","s","u">>,
    <<"U","n","c","u","l","t","u","r","e","d"," ","B","a">>, <<>>}

TaxonomyCells(label) ==
    LET k == Strip(Lower(label))
    IN IF k = <<"t","a","x","o","n">> THEN TaxonCells
       ELSE IF k = <<"s","p","e","c","i","e","s">> THEN SpeciesCells
       ELSE IF k = <<"c","o","n","f","i","d","e","n","c","e">> THEN {<<"0",".","9">>}
       ELSE {<<"f","1">>}

\* the headers of the taxonomy files: per column of the two schemas, absent or
\* under one of its spellings (no two columns of one file share a key)
TaxonomyHeaders ==
    {a \o b \o c \o d \o e :
        a \in {<<>>, << <<"F","e","a","t","u","r","e"," ","I","D">> >>,
               << <<" ","f","e","a","t","u","r","e"," ","i","d">> >>},
        b \in {<<>>, << <<"F","e","a","t","u","r","e","I","D">> >>,
               << <<"f","e","a","t","u","r","e","i","d">> >>},
        c \in {<<>>, << <<"S","p","e","c","i","e","s">> >>,
               << <<"s","p","e","c","i","e","s">> >>},
        d \in {<<>>, << <<"T","a","x","o","n">> >>, << <<"t","a","x","o","n"," ">> >>},
        e \in {<<>>, << <<"C","o","n","f","i","d","e","n","c","e">> >>}}

\* the cells of the columns of a taxonomy file with the header labels
TaxonomyPools(labels) == [j \in 1..Len(labels) |-> TaxonomyCells(labels[j])]

\* "Ba su", "Ba", " Ba", "Ba\tsu", "g__Ba sp."
ReferenceTaxonCells == {<<"B","a"," ","s","u">>, <<"B","a">>, <<" ","B","a">>,
    <<"B","a","\t","s","u">>, <<"g","_","_","B","a"," ","s","p",".">>}

\* "species", " SP ", "Genus", "family", ""
ReferenceRankCells == {<<"s","p","e","c","i","e","s">>, <<" ","S","P"," ">>,
    <<"G","e","n","u","s">>, <<"f","a","m","i","l","y">>, <<>>}

ReferenceCells(label) ==
    LET k == Strip(Lower(label))
    IN IF k = <<"t","a","x","o","n">> THEN ReferenceTaxonCells
       ELSE IF k = <<"r","a","n","k">> THEN ReferenceRankCells
       ELSE {<<"h","i","g","h">>}

\* the headers of the reference files: a taxon column under a spelling the reader
\* knows or does not know, a rank column or none, a risk column or none
ReferenceHeaders ==
    {a \o b \o c :
        a \in {<<>>, << <<"t","a","x","o","n">> >>, << <<"T","a","x","o","n">> >>,
               << <<" ","t","a","x","o","n">> >>},
        b \in {<<>>, << <<"R","a","n","k">> >>},
        c \in {<<>>, << <<"R","i","s","k">> >>}}

\* the cells of the columns of a reference file with the header labels
ReferencePools(labels) == [j \in 1..Len(labels) |-> ReferenceCells(labels[j])]

\* the reference lists read_reference_lists is checked on
\* a.csv: taxon,risk / "Ba su",high / "Ba",low
ListA ==
    [filename |-> "a.csv",
     columns |-> << <<"t","a","x","o","n">>, <<"r","i","s","k">> >>,
     rows |-> << << <<"B","a"," ","s","u">>, <<"h","i","g","h">> >>,
                 << <<"B","a">>, <<"l","o","w">> >> >>]

\* b.tsv: Taxon, Rank / "[Ba]", "Genus" / "Ba su", " SP " / "Ab", "genus"
ListB ==
    [filename |-> "b.tsv",
     columns |-> << <<"T","a","x","o","n">>, <<"R","a","n","k">> >>,
     rows |-> << << <<"[","B","a","]">>, <<"G","e","n","u","s">> >>,
                 << <<"B","a"," ","s","u">>, <<" ","S","P"," ">> >>,
                 << <<"A","b">>, <<"g","e","n","u","s">> >> >>]

\* c.tsv: name / "Ba" (no taxon column)
ListC ==
    [filename |-> "c.tsv", columns |-> << <<"n","a","m","e">> >>,
     rows |-> << << <<"B","a">> >> >>]

\* d.tsv: TAXON, and no row
ListD == [filename |-> "d.tsv", columns |-> << <<"T","A","X","O","N">> >>, rows |-> <<>>]

\* e.csv: rank, notes, and no row (no taxon column)
ListE ==
    [filename |-> "e.csv",
     columns |-> << <<"r","a","n","k">>, <<"n","o","t","e","s">> >>, rows |-> <<>>]

ReferenceLists == {ListA, ListB, ListC, ListD, ListE}

PathLists == UNION {[1..n -> ReferenceLists] : n \in 0..MaxFiles}

(***************************************************************************)
(* The calls.                                                              *)
(***************************************************************************)
normVars == <<name, strip_uncultured, normalized>>
rankVars == <<taxon, rank_letter, extracted>>
fileVars == <<path, df>>
listVars == <<paths, refs, idx, opened, ref>>

NoNormalizeCall == name = None /\ strip_uncultured = FALSE /\ normalized = None
NoExtractCall == taxon = None /\ rank_letter = "s" /\ extracted = None
NoFileCall == path = NoFile /\ df = NoFrame
NoListCall ==
    paths = <<>> /\ refs = <<>> /\ idx = 0 /\ opened = <<>> /\ ref = NoFrame

\* normalize_taxon_name(name, strip_uncultured)
InitNormalize ==
    /\ pc = "call"
    /\ name \in Names
    /\ strip_uncultured \in BOOLEAN
    /\ normalized = None
    /\ raised = NoException
    /\ NoExtractCall /\ NoFileCall /\ NoListCall

NormalizeTaxonName ==
    /\ pc = "call"
    /\ normalized' = normalize_taxon_name(name, strip_uncultured)
    /\ pc' = "return"
    /\ UNCHANGED <<name, strip_uncultured, rankVars, fileVars, listVars, raised>>

SpecNormalize == InitNormalize /\ [][NormalizeTaxonName]_vars

\* extract_rank_from_taxon_string(taxon, rank_letter)
InitExtract ==
    /\ pc = "call"
    /\ taxon \in Taxons
    /\ rank_letter \in AskedRankLetters
    /\ extracted = None
    /\ raised = NoException
    /\ NoNormalizeCall /\ NoFileCall /\ NoListCall

ExtractRankFromTaxonString ==
    /\ pc = "call"
    /\ extracted' = extract_rank_from_taxon_string(taxon, rank_letter)
    /\ pc' = "return"
    /\ UNCHANGED <<taxon, rank_letter, normVars, fileVars, listVars, raised>>

SpecExtract == InitExtract /\ [][ExtractRankFromTaxonString]_vars

\* a reader's result: the frame it returns or the exception it raises
Finish(result) ==
    /\ df' = result.frame
    /\ raised' = result.exception
    /\ pc' = IF result.exception = NoException THEN "return" ELSE "raise"

\* read_taxonomy_table(path)
InitTaxonomy ==
    /\ pc = "call"
    /\ \E labels \in TaxonomyHeaders : \E rows \in TablesOf(TaxonomyPools(labels)) :
          path = [filename |-> "taxonomy.tsv", columns |-> labels, rows |-> rows]
    /\ df = NoFrame
    /\ raised = NoException
    /\ NoNormalizeCall /\ NoExtractCall /\ NoListCall

ReadTaxonomyTable ==
    /\ pc = "call"
    /\ Finish(read_taxonomy_table(path))
    /\ UNCHANGED <<path, normVars, rankVars, listVars>>

SpecTaxonomy == InitTaxonomy /\ [][ReadTaxonomyTable]_vars

\* _read_ref_one(path)
InitRefOne ==
    /\ pc = "call"
    /\ \E labels \in ReferenceHeaders : \E rows \in TablesOf(ReferencePools(labels)) :
          path = [filename |-> "reference.csv", columns |-> labels, rows |-> rows]
    /\ df = NoFrame
    /\ raised = NoException
    /\ NoNormalizeCall /\ NoExtractCall /\ NoListCall

ReadRefOne ==
    /\ pc = "call"
    /\ Finish(read_ref_one(path))
    /\ UNCHANGED <<path, normVars, rankVars, listVars>>

SpecRefOne == InitRefOne /\ [][ReadRefOne]_vars

\* read_reference_lists(paths)
InitRefLists ==
    /\ pc = "for"
    /\ paths \in PathLists
    /\ refs = <<>>
    /\ idx = 1
    /\ opened = <<>>
    /\ ref = NoFrame
    /\ raised = NoException
    /\ NoNormalizeCall /\ NoExtractCall /\ NoFileCall

\* the turn of the loop with refs.insert(0, ...) for refs.append(...)
ForEachPathPrepending ==
    /\ pc = "for"
    /\ idx <= Len(paths)
    /\ LET result == read_ref_one(paths[idx])
       IN /\ opened' = Append(opened, paths[idx].filename)
          /\ IF result.exception = NoException
             THEN /\ refs' = <<result.frame>> \o refs
                  /\ idx' = idx + 1
                  /\ UNCHANGED <<pc, raised>>
             ELSE /\ raised' = result.exception
                  /\ pc' = "raise"
                  /\ UNCHANGED <<refs, idx>>
    /\ UNCHANGED <<paths, ref, normVars, rankVars, fileVars>>

\* the turn of the loop with the reader's exception caught and the file skipped
ForEachPathSkipping ==
    /\ pc = "for"
    /\ idx <= Len(paths)
    /\ LET result == read_ref_one(paths[idx])
       IN /\ opened' = Append(opened, paths[idx].filename)
          /\ refs' = IF result.exception = NoException
                     THEN Append(refs, result.frame)
                     ELSE refs
          /\ idx' = idx + 1
          /\ UNCHANGED <<pc, raised>>
    /\ UNCHANGED <<paths, ref, normVars, rankVars, fileVars>>

\* lines 136-137: one turn of the loop, refs.append(_read_ref_one(p))
ForEachPath ==
    /\ pc = "for"
    /\ idx <= Len(paths)
    /\ LET result == read_ref_one(paths[idx])
       IN /\ opened' = Append(opened, paths[idx].filename)
          /\ IF result.exception = NoException
             THEN /\ refs' = Append(refs, result.frame)
                  /\ idx' = idx + 1
                  /\ UNCHANGED <<pc, raised>>
             ELSE /\ raised' = result.exception
                  /\ pc' = "raise"
                  /\ UNCHANGED <<refs, idx>>
    /\ UNCHANGED <<paths, ref, normVars, rankVars, fileVars>>

\* the test with "if len(refs) < 2" for "if not refs"
RaiseIfFewRefs ==
    /\ pc = "for"
    /\ idx > Len(paths)
    /\ Len(refs) < 2
    /\ raised' = AtLeastOneReferenceList
    /\ pc' = "raise"
    /\ UNCHANGED <<paths, refs, idx, opened, ref, normVars, rankVars, fileVars>>

\* lines 138-139: if not refs: raise ValueError(...)
RaiseIfNoRefs ==
    /\ pc = "for"
    /\ idx > Len(paths)
    /\ refs = <<>>
    /\ raised' = AtLeastOneReferenceList
    /\ pc' = "raise"
    /\ UNCHANGED <<paths, refs, idx, opened, ref, normVars, rankVars, fileVars>>

\* line 140: ref = pd.concat(refs, ...), and the return
ConcatRefs ==
    /\ pc = "for"
    /\ idx > Len(paths)
    /\ refs # <<>>
    /\ ref' = Concat(refs)
    /\ pc' = "return"
    /\ UNCHANGED <<paths, refs, idx, opened, raised, normVars, rankVars, fileVars>>

NextRefLists == ForEachPath \/ RaiseIfNoRefs \/ ConcatRefs

SpecRefLists == InitRefLists /\ [][NextRefLists]_vars

(***************************************************************************)
(* Properties.                                                             *)
(***************************************************************************)
\* the whitespace-delimited tokens of s, in order; cur is the token being read
RECURSIVE TokensOf(_, _, _)
TokensOf(s, i, cur) ==
    IF i > Len(s) THEN (IF cur = <<>> THEN <<>> ELSE <<cur>>)
    ELSE IF IsSpace(s[i])
         THEN (IF cur = <<>> THEN <<>> ELSE <<cur>>) \o TokensOf(s, i + 1, <<>>)
         ELSE TokensOf(s, i + 1, Append(cur, s[i]))

\* s holds a qualifier as a token: uncultured, metagenome, sp. or incertae sedis
HasQualifierToken(s) ==
    LET w == TokensOf(s, 1, <<>>)
    IN \E k \in 1..Len(w) :
          \/ Lower(w[k]) \in {<<"u","n","c","u","l","t","u","r","e","d">>,
              <<"m","e","t","a","g","e","n","o","m","e">>, <<"s","p",".">>}
          \/ k < Len(w) /\ Lower(w[k]) = W_incertae /\ Lower(w[k + 1]) = W_sedis

\* C1: normalize_taxon_name is idempotent: normalizing what it returned, under the
\* same strip-uncultured flag, returns it unchanged.
C1_Idempotent ==
    pc = "return" => normalize_taxon_name(normalized, strip_uncultured) = normalized

\* C3: with the strip-uncultured flag set, what normalize_taxon_name returns holds
\* none of the qualifiers uncultured, metagenome, sp. and incertae sedis, in any
\* letter case, as a token delimited by whitespace or the ends of the string.
C3_QualifiersRemoved ==
    (pc = "return" /\ strip_uncultured) => ~HasQualifierToken(normalized)

\* the segments of t between its semicolons, as intervals <<first, last>> of
\* positions (last = first - 1 for an empty segment)
SegmentsOf(t) ==
    {iv \in (1..(Len(t) + 1)) \X (0..Len(t)) :
        /\ iv[2] >= iv[1] - 1
        /\ iv[1] = 1 \/ t[iv[1] - 1] = ";"
        /\ iv[2] = Len(t) \/ t[iv[2] + 1] = ";"
        /\ \A i \in iv[1]..iv[2] : t[i] # ";"}

SegmentText(t, iv) == Strip(SubSeq(t, iv[1], iv[2]))

\* the segments of t that start, trimmed and lowercased, with "<letter>__"
SegmentsAtRank(t, letter) ==
    {iv \in SegmentsOf(t) :
        LET p == Lower(SegmentText(t, iv))
        IN Len(p) >= 3 /\ p[1] = letter /\ p[2] = "_" /\ p[3] = "_"}

\* the trimmed text after the first "__" of p
ValueOf(p) ==
    LET first == CHOOSE j \in 1..(Len(p) - 1) :
                    /\ p[j] = "_" /\ p[j + 1] = "_"
                    /\ \A h \in 1..(j - 1) : ~(p[h] = "_" /\ p[h + 1] = "_")
    IN Strip(SubSeq(p, first + 2, Len(p)))

LastSegmentAtRank(t, letter) ==
    CHOOSE iv \in SegmentsAtRank(t, letter) :
        \A other \in SegmentsAtRank(t, letter) : other[1] <= iv[1]

NoSegmentAtRank(t, letter) ==
    t = None \/ t = <<>> \/ SegmentsAtRank(t, letter) = {}

\* C2: extract_rank_from_taxon_string returns the trimmed text after the first "__"
\* of the last semicolon-separated segment that starts, trimmed and lowercased, with
\* "<rank letter>__", and returns None exactly when the taxon string is empty or
\* absent or no segment matches.
C2_LastSegmentWins ==
    pc = "return" =>
        /\ (extracted = None) <=> NoSegmentAtRank(taxon, rank_letter)
        /\ ~NoSegmentAtRank(taxon, rank_letter) =>
              extracted = ValueOf(SegmentText(taxon, LastSegmentAtRank(taxon, rank_letter)))

\* C2, reached: two segments at the asked rank with different values, the value of
\* the last one returned.
C2_Witness ==
    /\ pc = "return"
    /\ taxon # None
    /\ \E a \in SegmentsAtRank(taxon, rank_letter) :
          /\ a # LastSegmentAtRank(taxon, rank_letter)
          /\ ValueOf(SegmentText(taxon, a)) # <<>>
          /\ ValueOf(SegmentText(taxon, a)) # extracted
    /\ extracted # None /\ extracted # <<>>

\* the cells of the column of the file at path whose lowercased, trimmed label is key
RawCells(key) ==
    LET j == CHOOSE j \in 1..Len(path.columns) : Strip(Lower(path.columns[j])) = key
    IN [r \in 1..Len(path.rows) |-> path.rows[r][j]]

HasKey(key) == \E j \in 1..Len(path.columns) : Strip(Lower(path.columns[j])) = key

KeysOfFile == {Strip(Lower(path.columns[j])) : j \in 1..Len(path.columns)}

\* C4: every row _read_ref_one returns has a rank that is "species" or "genus",
\* whether the rank was inferred or read from a rank column.
C4_RankResolved ==
    pc = "return" =>
        \A r \in 1..Len(df.rows) : GetColumn(df, L_rank)[r] \in {R_species, R_genus}

NoRankColumn == \A j \in 1..Len(path.columns) : Lower(path.columns[j]) # L_rank

HasInnerSpace(s) ==
    \E i, j, k \in 1..Len(s) :
        i < j /\ j < k /\ s[j] = " " /\ ~IsSpace(s[i]) /\ ~IsSpace(s[k])

SchemaA == HasKey(K_feature_id) /\ HasKey(K_taxon)

SchemaB == HasKey(K_featureid) /\ HasKey(K_species) /\ HasKey(K_taxon)

\* C7: a taxonomy table that satisfies neither schema makes read_taxonomy_table
\* fail with the schema error that names the file and the two accepted schemas, and
\* with no other error; no table is returned.
C7_SchemaError ==
    (pc # "call" /\ ~SchemaA /\ ~SchemaB) =>
        /\ pc = "raise"
        /\ raised = UnrecognizedTaxonomyColumns(path)
        /\ df = NoFrame

\* the column names of the file are those of the schema, an optional Confidence
\* column apart
ExactlySchemaA == KeysOfFile \ {K_confidence} = {K_feature_id, K_taxon}

ExactlySchemaB ==
    KeysOfFile \ {K_confidence} = {K_featureid, K_species, K_taxon}

\* C8: on a table whose column names are those of Schema A or Schema B up to letter
\* case and surrounding whitespace, read_taxonomy_table succeeds, and in every row
\* Species_norm = Normalizer(Species), Genus = RankExtractor(Taxon, "g") or "",
\* Genus_norm = Normalizer(Genus) and, under Schema A, Species =
\* RankExtractor(Taxon, "s") or "".
C8_DerivedColumns ==
    (pc # "call" /\ (ExactlySchemaA \/ ExactlySchemaB)) =>
        /\ pc = "return"
        /\ Len(df.rows) = Len(path.rows)
        /\ \A r \in 1..Len(df.rows) :
              /\ GetColumn(df, L_Species_norm)[r] =
                    normalize_taxon_name(GetColumn(df, L_Species)[r], TRUE)
              /\ GetColumn(df, L_Genus)[r] = ExtractOrEmpty(RawCells(K_taxon)[r], "g")
              /\ GetColumn(df, L_Genus_norm)[r] =
                    normalize_taxon_name(GetColumn(df, L_Genus)[r], TRUE)
              /\ ExactlySchemaA =>
                    GetColumn(df, L_Species)[r] =
                        ExtractOrEmpty(RawCells(K_taxon)[r], "s")
              /\ ExactlySchemaB => GetColumn(df, L_Species)[r] = RawCells(K_species)[r]

\* a reference entry: the taxon, rank and taxon_norm cells of row r of frame
Entry(frame, r) ==
    <<GetColumn(frame, L_taxon)[r], GetColumn(frame, L_rank)[r],
      GetColumn(frame, L_taxon_norm)[r]>>

\* the rows of the first k files of paths
RECURSIVE RowsBefore(_)
RowsBefore(k) == IF k = 0 THEN 0 ELSE RowsBefore(k - 1) + Len(paths[k].rows)

LacksTaxonColumn(p) == \A j \in 1..Len(p.columns) : Lower(p.columns[j]) # L_taxon

SomeFileLacksTaxon == \E k \in 1..Len(paths) : LacksTaxonColumn(paths[k])

FirstLackingTaxon ==
    CHOOSE k \in 1..Len(paths) :
        LacksTaxonColumn(paths[k]) /\ \A h \in 1..(k - 1) : ~LacksTaxonColumn(paths[h])

\* C9: if a file of the list has no taxon column, read_reference_lists fails with
\* the schema error naming the first such file; the call ends there, no table is
\* returned, and no file after that one is read.
C9_FirstBadFileRaises ==
    SomeFileLacksTaxon =>
        /\ ref = NoFrame
        /\ pc # "return"
        /\ Len(opened) <= FirstLackingTaxon
        /\ \A k \in 1..Len(opened) : opened[k] = paths[k].filename
        /\ pc = "for" => idx <= FirstLackingTaxon
        /\ pc = "raise" =>
              /\ raised = MustContainTaxonColumn(paths[FirstLackingTaxon])
              /\ Len(opened) = FirstLackingTaxon
              /\ ~ENABLED NextRefLists

\* C9, reached: the call failed on a file without a taxon column after reading valid
\* files before it and with files after it left unread.
C9_Witness ==
    /\ pc = "raise"
    /\ SomeFileLacksTaxon
    /\ raised = MustContainTaxonColumn(paths[FirstLackingTaxon])
    /\ refs # <<>>
    /\ Len(opened) < Len(paths)

\* C10: read_reference_lists on an empty list fails with the error "at least one
\* reference list is required" and returns no table; it fails with that error only
\* on an empty list.
C10_EmptyListRaises ==
    /\ paths = <<>> =>
          /\ ref = NoFrame
          /\ pc # "return"
          /\ pc = "for" => ENABLED RaiseIfNoRefs /\ ~ENABLED ConcatRefs
          /\ pc = "raise" => raised = AtLeastOneReferenceList /\ ~ENABLED NextRefLists
    /\ raised = AtLeastOneReferenceList => paths = <<>>

\* C10, reached: the call on the empty list has failed with that error.
C10_Witness ==
    pc = "raise" /\ paths = <<>> /\ raised = AtLeastOneReferenceList /\ opened = <<>>

====
